---- MODULE Spec2Model ----
(***************************************************************************)
(* Model of the slipsole Bezier-curve editor (src/src/main.rs).            *)
(*                                                                         *)
(* The program is one State value shared by three canvas event listeners   *)
(* (mousedown, mousemove, mouseup) that run to completion one at a time.   *)
(* Each listener is one action.  redraw only reads the state and paints;   *)
(* what it paints is kept in `drawn`, the list of redraw calls made by the *)
(* last listener.                                                          *)
(***************************************************************************)
EXTENDS Integers, Sequences, FiniteSets, TLC

VARIABLES
    curves,      \* State.curves     : Vec<Curve>
    drag_state,  \* State.drag_state : Option<DragState>
    new_curve,   \* State.new_curve  : Option<Point>
    mouse,       \* State.mouse      : Point
    event,       \* the event handled last (kind and offset_x / offset_y)
    pre,         \* the State as it was when that event arrived
    drawn,       \* the redraw calls made while handling that event
    drag_origin, \* history: pointer and handle position at the pointer-down
                 \* that started the current uninterrupted drag gesture
    anchor_clears, \* history: how often new_curve went from Some to None
    nev,         \* number of events delivered so far
    panicked,    \* a listener has panicked (index out of bounds)
    call         \* a single call of a pure function: arguments and result

vars == <<curves, drag_state, new_curve, mouse, event, pre, drawn,
          drag_origin, anchor_clears, nev, panicked, call>>

state_vars == <<curves, drag_state, new_curve, mouse, event, pre, drawn,
                drag_origin, anchor_clears, nev, panicked>>

-----------------------------------------------------------------------------
(* Bounds of the model *)

\* events delivered in one run
MaxEvents == 5
\* pointer events land on the grid points (i * POINT_RADIUS, j * POINT_RADIUS),
\* i in 0..MaxGridX, on the two rows j = 0 and j = 1
MaxGridX == 2
\* is_point_inside_circle is called with center and point in -MaxHit..MaxHit
MaxHit == 3
\* the new-curve computation is run on coordinates 0..MaxSyn (and the
\* coordinates of the documented examples)
MaxSyn == 24

-----------------------------------------------------------------------------
(* Values *)

POINT_RADIUS == 4

None == [tag |-> "None"]
Some(v) == [tag |-> "Some", val |-> v]

Point(x, y) == [x |-> x, y |-> y]
Curve(a, b, c, d) == [a |-> a, b |-> b, c |-> c, d |-> d]
\* variant: the index counted from one
DragStateOneBased(curve_index, point) ==
    [curve_index |-> curve_index + 1, point |-> point]

DragState(curve_index, point) == [curve_index |-> curve_index, point |-> point]

PointHandle == {"A", "B", "C", "D"}

\* the field of a curve a PointHandle selects
HandlePoint(curve, handle) ==
    CASE handle = "A" -> curve.a
      [] handle = "B" -> curve.b
      [] handle = "C" -> curve.c
      [] handle = "D" -> curve.d

\* variant: every handle of the curve lying where the selected one lies is
\* replaced with it
WithHandlePointByPlace(curve, handle, p) ==
    LET old == HandlePoint(curve, handle)
    IN  [a |-> IF curve.a = old THEN p ELSE curve.a,
         b |-> IF curve.b = old THEN p ELSE curve.b,
         c |-> IF curve.c = old THEN p ELSE curve.c,
         d |-> IF curve.d = old THEN p ELSE curve.d]

\* the curve with the selected field replaced
WithHandlePoint(curve, handle, p) ==
    CASE handle = "A" -> [curve EXCEPT !.a = p]
      [] handle = "B" -> [curve EXCEPT !.b = p]
      [] handle = "C" -> [curve EXCEPT !.c = p]
      [] handle = "D" -> [curve EXCEPT !.d = p]

-----------------------------------------------------------------------------
(* f64 arithmetic.                                                         *)
(* An f64 is modelled as a binary fixed-point number with 20 fraction      *)
(* bits: the integer v stands for v / F64One.  Every i32 in range is       *)
(* exact; a quotient is rounded to the nearest representable value, as     *)
(* IEEE-754 division does.  (A real f64 of magnitude below 2^31 carries at *)
(* least 22 fraction bits, so it rounds no more coarsely than this.)       *)

F64One == 2^20

\* `i as f64`
I32ToF64(i) == i * F64One

\* `v / n.0` for a whole-number divisor n > 0: round to nearest, ties to even
F64DivWhole(v, n) ==
    LET q == v \div n
        r == v % n
    IN  IF 2 * r < n THEN q
        ELSE IF 2 * r > n THEN q + 1
        ELSE IF q % 2 = 0 THEN q ELSE q + 1

\* `v * n.0` for a whole number n (exact in range)
F64MulWhole(v, n) == v * n

\* `v.powi(2)`; the program only squares whole-valued numbers, where the
\* product is exact
F64Powi2(v) ==
    IF v % F64One = 0
    THEN ((v \div F64One) * (v \div F64One)) * F64One
    ELSE F64DivWhole(v * v, F64One)

\* variant: the conversion rounds to the nearest integer
F64RoundToI32(v) == (v + (F64One \div 2)) \div F64One

\* `v as i32`: the fraction is dropped, rounding toward zero
F64ToI32(v) == IF v >= 0 THEN v \div F64One ELSE -((-v) \div F64One)

-----------------------------------------------------------------------------
(* Geometry helpers *)

\* variant: the circle's boundary is outside
is_point_strictly_inside_circle(center, radius, point) ==
    LET cx == I32ToF64(center.x)
        cy == I32ToF64(center.y)
        x  == I32ToF64(point.x)
        y  == I32ToF64(point.y)
        r  == I32ToF64(radius)
    IN  F64Powi2(cx - x) + F64Powi2(cy - y) < F64Powi2(r)

is_point_inside_circle(center, radius, point) ==
    LET cx == I32ToF64(center.x)
        cy == I32ToF64(center.y)
        x  == I32ToF64(point.x)
        y  == I32ToF64(point.y)
        r  == I32ToF64(radius)
    IN  F64Powi2(cx - x) + F64Powi2(cy - y) <= F64Powi2(r)

\* the control points of a freshly placed curve from anchor a to mouse
NewCurve(a, m) ==
    LET ax  == I32ToF64(a.x)
        ay  == I32ToF64(a.y)
        dx  == I32ToF64(m.x)
        dy  == I32ToF64(m.y)
        adx == dx - ax
        ady == dy - ay
        abx == F64DivWhole(adx, 3)
        aby == F64DivWhole(ady, 3)
        bx  == ax + abx
        by  == ay + aby
        acx == F64MulWhole(F64DivWhole(adx, 3), 2)
        acy == F64MulWhole(F64DivWhole(ady, 3), 2)
        cx  == ax + acx
        cy  == ay + acy
        b   == Point(F64ToI32(bx), F64ToI32(by))
        c   == Point(F64ToI32(cx), F64ToI32(cy))
    IN  Curve(a, b, c, m)

\* variant: the handles of a curve are tested in the order d, c, b, a
RECURSIVE HitScanReversed(_, _, _)
HitScanReversed(cs, m, index) ==
    IF index >= Len(cs) THEN None
    ELSE LET curve == cs[index + 1]
         IN  IF is_point_inside_circle(curve.d, POINT_RADIUS, m)
                 THEN Some(DragState(index, "D"))
             ELSE IF is_point_inside_circle(curve.c, POINT_RADIUS, m)
                 THEN Some(DragState(index, "C"))
             ELSE IF is_point_inside_circle(curve.b, POINT_RADIUS, m)
                 THEN Some(DragState(index, "B"))
             ELSE IF is_point_inside_circle(curve.a, POINT_RADIUS, m)
                 THEN Some(DragState(index, "A"))
             ELSE HitScanReversed(cs, m, index + 1)

\* the hit-test loop of the mousedown listener, from curve `index` on:
\* the first curve with a hit handle, and in it the first of a, b, c, d
RECURSIVE HitScan(_, _, _)
HitScan(cs, m, index) ==
    IF index >= Len(cs) THEN None
    ELSE LET curve == cs[index + 1]
         IN  IF is_point_inside_circle(curve.a, POINT_RADIUS, m)
                 THEN Some(DragState(index, "A"))
             ELSE IF is_point_inside_circle(curve.b, POINT_RADIUS, m)
                 THEN Some(DragState(index, "B"))
             ELSE IF is_point_inside_circle(curve.c, POINT_RADIUS, m)
                 THEN Some(DragState(index, "C"))
             ELSE IF is_point_inside_circle(curve.d, POINT_RADIUS, m)
                 THEN Some(DragState(index, "D"))
             ELSE HitScan(cs, m, index + 1)

\* what one call of redraw paints: every curve, and the preview line from
\* the pending anchor to the pointer when an anchor is pending
redraw(state) ==
    [curves  |-> state.curves,
     preview |-> IF state.new_curve # None
                 THEN Some(<<state.new_curve.val, state.mouse>>)
                 ELSE None]

-----------------------------------------------------------------------------
(* The listeners, as functions from the State and the event to the State  *)
(* they leave, the redraw calls they make, and whether they panic.         *)

Result(state, draws) == [state |-> state, drawn |-> draws, panic |-> FALSE]
Panic(state, draws) == [state |-> state, drawn |-> draws, panic |-> TRUE]

\* main: the State the listeners are registered on
InitialState ==
    [curves |-> <<>>, drag_state |-> None, new_curve |-> None,
     mouse |-> Point(0, 0)]

\* variant: the new curve is inserted in front of the others
place_curve_in_front(state, m) ==
    IF state.new_curve = None
    THEN Result([state EXCEPT !.new_curve = Some(m)], <<>>)
    ELSE LET a  == state.new_curve.val
             s1 == [state EXCEPT !.new_curve = None]
             s2 == [s1 EXCEPT !.curves = <<NewCurve(a, m)>> \o @]
         IN  Result(s2, <<redraw(s2)>>)

\* variant: the pending anchor is not cleared by the second click
place_curve_keep_anchor(state, m) ==
    IF state.new_curve = None
    THEN Result([state EXCEPT !.new_curve = Some(m)], <<>>)
    ELSE LET a  == state.new_curve.val
             s2 == [state EXCEPT !.curves = Append(@, NewCurve(a, m))]
         IN  Result(s2, <<redraw(s2)>>)

\* mousedown, after the hit test found no handle: `match state.new_curve.get()`
place_curve(state, m) ==
    IF state.new_curve = None
    THEN Result([state EXCEPT !.new_curve = Some(m)], <<>>)
    ELSE LET a  == state.new_curve.val
             s1 == [state EXCEPT !.new_curve = None]
             s2 == [s1 EXCEPT !.curves = Append(@, NewCurve(a, m))]
         IN  Result(s2, <<redraw(s2)>>)

\* variant: a click beside every handle ends a drag that is still active
mousedown_miss_ends_drag(state, m) ==
    LET s1  == [state EXCEPT !.mouse = m]
        hit == HitScan(s1.curves, m, 0)
    IN  IF hit # None
        THEN Result([s1 EXCEPT !.drag_state = hit], <<>>)
        ELSE place_curve([s1 EXCEPT !.drag_state = None], m)

\* variant: grabbing a handle drops the pending anchor
mousedown_hit_cancels_anchor(state, m) ==
    LET s1  == [state EXCEPT !.mouse = m]
        hit == HitScan(s1.curves, m, 0)
    IN  IF hit # None
        THEN Result([s1 EXCEPT !.drag_state = hit, !.new_curve = None], <<>>)
        ELSE place_curve(s1, m)

\* variant: no return after a hit, the new-curve logic runs as well
mousedown_fallthrough(state, m) ==
    LET s1  == [state EXCEPT !.mouse = m]
        hit == HitScan(s1.curves, m, 0)
    IN  IF hit # None
        THEN place_curve([s1 EXCEPT !.drag_state = hit], m)
        ELSE place_curve(s1, m)

\* the mousedown listener
mousedown(state, m) ==
    LET s1  == [state EXCEPT !.mouse = m]
        hit == HitScan(s1.curves, m, 0)
    IN  IF hit # None
        THEN Result([s1 EXCEPT !.drag_state = hit], <<>>)
        ELSE place_curve(s1, m)

\* variant: state.mouse is set before the displacement is computed
drag_branch_stale(state, x, y) ==
    IF state.drag_state = None THEN Result(state, <<>>)
    ELSE LET ds == state.drag_state.val
             s0 == [state EXCEPT !.mouse = Point(x, y)]
             dx == x - s0.mouse.x
             dy == y - s0.mouse.y
         IN  IF ds.curve_index >= Len(state.curves)
             THEN Panic(state, <<>>)
             ELSE LET curve == s0.curves[ds.curve_index + 1]
                      point == HandlePoint(curve, ds.point)
                      moved == Point(point.x + dx, point.y + dy)
                      s1    == [s0 EXCEPT
                                  !.curves[ds.curve_index + 1] =
                                      WithHandlePoint(curve, ds.point, moved)]
                  IN  Result(s1, <<redraw(s1)>>)

\* variant: state.mouse is not updated by a drag step
drag_branch_no_mouse(state, x, y) ==
    IF state.drag_state = None THEN Result(state, <<>>)
    ELSE LET ds == state.drag_state.val
             dx == x - state.mouse.x
             dy == y - state.mouse.y
         IN  IF ds.curve_index >= Len(state.curves)
             THEN Panic(state, <<>>)
             ELSE LET curve == state.curves[ds.curve_index + 1]
                      point == HandlePoint(curve, ds.point)
                      moved == Point(point.x + dx, point.y + dy)
                      s1    == [state EXCEPT
                                  !.curves[ds.curve_index + 1] =
                                      WithHandlePoint(curve, ds.point, moved)]
                  IN  Result(s1, <<redraw(s1)>>)

\* mousemove, `if let Some(drag_state) = state.drag_state.get()`
drag_branch(state, x, y) ==
    IF state.drag_state = None THEN Result(state, <<>>)
    ELSE LET ds == state.drag_state.val
             dx == x - state.mouse.x
             dy == y - state.mouse.y
         IN  IF ds.curve_index >= Len(state.curves)
             THEN Panic(state, <<>>)
             ELSE LET curve == state.curves[ds.curve_index + 1]
                      point == HandlePoint(curve, ds.point)
                      moved == Point(point.x + dx, point.y + dy)
                      s1    == [state EXCEPT
                                  !.curves[ds.curve_index + 1] =
                                      WithHandlePoint(curve, ds.point, moved)]
                      s2    == [s1 EXCEPT !.mouse = Point(x, y)]
                      s3    == [s2 EXCEPT !.drag_state = Some(ds)]
                  IN  Result(s3, <<redraw(s3)>>)

\* variant: the preview follows the pointer but the canvas is not redrawn
pending_branch_no_redraw(state, x, y) ==
    IF state.new_curve # None
    THEN Result([state EXCEPT !.mouse = Point(x, y)], <<>>)
    ELSE Result(state, <<>>)

\* variant: the pointer is tracked and the canvas redrawn on every move
pending_branch_always(state, x, y) ==
    LET s1 == [state EXCEPT !.mouse = Point(x, y)]
    IN  Result(s1, <<redraw(s1)>>)

\* mousemove, `if state.new_curve.get().is_some()`
pending_branch(state, x, y) ==
    IF state.new_curve # None
    THEN LET s1 == [state EXCEPT !.mouse = Point(x, y)]
         IN  Result(s1, <<redraw(s1)>>)
    ELSE Result(state, <<>>)

\* variant: the pending branch runs before the drag branch
mousemove_pending_first(state, x, y) ==
    LET r1 == pending_branch(state, x, y)
        r2 == drag_branch(r1.state, x, y)
    IN  IF r2.panic THEN r2
        ELSE Result(r2.state, r1.drawn \o r2.drawn)

\* variant: a move ends the drag
mousemove_ends_drag(state, x, y) ==
    LET r1 == drag_branch(state, x, y)
    IN  IF r1.panic THEN r1
        ELSE LET r2 == pending_branch(r1.state, x, y)
             IN  Result([r2.state EXCEPT !.drag_state = None],
                        r1.drawn \o r2.drawn)

\* the mousemove listener
mousemove(state, x, y) ==
    LET r1 == drag_branch(state, x, y)
    IN  IF r1.panic THEN r1
        ELSE LET r2 == pending_branch(r1.state, x, y)
             IN  Result(r2.state, r1.drawn \o r2.drawn)

\* variant: releasing the button also drops the pending anchor
mouseup_cancel_all(state) ==
    Result([state EXCEPT !.drag_state = None, !.new_curve = None], <<>>)

\* the mouseup listener
mouseup(state) ==
    Result([state EXCEPT !.drag_state = None], <<>>)

-----------------------------------------------------------------------------
(* The editor as a state machine *)

State == [curves |-> curves, drag_state |-> drag_state,
          new_curve |-> new_curve, mouse |-> mouse]

NoCall == [fn |-> "none"]

\* positions a pointer event can carry
Positions ==
    {Point(i * POINT_RADIUS, j * POINT_RADIUS) : i \in 0..MaxGridX, j \in 0..1}

\* the point a DragState refers to, if its index is in range
DraggedPoint(cs, ds) ==
    IF ds.curve_index < Len(cs)
    THEN Some(HandlePoint(cs[ds.curve_index + 1], ds.point))
    ELSE None

StateInit ==
    /\ curves = InitialState.curves
    /\ drag_state = InitialState.drag_state
    /\ new_curve = InitialState.new_curve
    /\ mouse = InitialState.mouse
    /\ event = [kind |-> "init"]
    /\ pre = InitialState
    /\ drawn = <<redraw(InitialState)>>
    /\ drag_origin = None
    /\ anchor_clears = 0
    /\ nev = 0
    /\ panicked = FALSE

Init == StateInit /\ call = NoCall

\* a listener ran on the current State and left `r`
Handled(r) ==
    /\ ~panicked
    /\ nev < MaxEvents
    /\ nev' = nev + 1
    /\ pre' = State
    /\ curves' = r.state.curves
    /\ drag_state' = r.state.drag_state
    /\ new_curve' = r.state.new_curve
    /\ mouse' = r.state.mouse
    /\ drawn' = r.drawn
    /\ panicked' = r.panic
    /\ anchor_clears' =
         IF new_curve # None /\ r.state.new_curve = None
         THEN anchor_clears + 1 ELSE anchor_clears
    /\ UNCHANGED call

MouseDown(p) ==
    LET r == mousedown(State, p)
    IN  /\ Handled(r)
        /\ event' = [kind |-> "mousedown", pos |-> p]
        /\ drag_origin' =
             IF HitScan(curves, p, 0) # None
             THEN Some([pointer |-> p,
                        handle  |-> DraggedPoint(r.state.curves, r.state.drag_state.val),
                        moves   |-> 0])
             ELSE None

MouseMove(p) ==
    LET r == mousemove(State, p.x, p.y)
    IN  /\ Handled(r)
        /\ event' = [kind |-> "mousemove", pos |-> p]
        /\ drag_origin' =
             IF drag_origin # None
             THEN Some([drag_origin.val EXCEPT !.moves = @ + 1])
             ELSE None

MouseUp ==
    LET r == mouseup(State)
    IN  /\ Handled(r)
        /\ event' = [kind |-> "mouseup"]
        /\ drag_origin' = None

Next ==
    \/ \E p \in Positions : MouseDown(p)
    \/ \E p \in Positions : MouseMove(p)
    \/ MouseUp

Spec == Init /\ [][Next]_vars

-----------------------------------------------------------------------------
(* Single calls of the pure functions *)

HitCoords == (0 - MaxHit)..MaxHit

HitInit ==
    /\ StateInit
    /\ \E cx \in HitCoords, cy \in HitCoords, x \in HitCoords, y \in HitCoords :
         call = [fn |-> "is_point_inside_circle", center |-> Point(cx, cy),
                 point |-> Point(x, y), done |-> FALSE, ret |-> FALSE]

HitCall ==
    /\ call.fn = "is_point_inside_circle"
    /\ ~call.done
    /\ call' = [call EXCEPT
                  !.done = TRUE,
                  !.ret = is_point_inside_circle(call.center, POINT_RADIUS, call.point)]
    /\ UNCHANGED state_vars

HitNext == HitCall

HitSpec == HitInit /\ [][HitNext]_vars

\* coordinates of the anchor and of the second click
SynXs == (0..MaxSyn) \cup {300, 310}
SynYs == {0, 1, 5, 10, 300}

SynInit ==
    /\ StateInit
    /\ \E ax \in SynXs, ay \in SynYs, dx \in SynXs, dy \in SynYs :
         call = [fn |-> "new_curve", a |-> Point(ax, ay), d |-> Point(dx, dy),
                 done |-> FALSE, ret |-> Curve(Point(0, 0), Point(0, 0),
                                               Point(0, 0), Point(0, 0))]

\* the second click of a new curve: place_curve with the anchor pending
SynCall ==
    /\ call.fn = "new_curve"
    /\ ~call.done
    /\ LET r == place_curve([InitialState EXCEPT !.new_curve = Some(call.a),
                                                 !.mouse = call.d], call.d)
       IN  call' = [call EXCEPT !.done = TRUE,
                                !.ret = r.state.curves[Len(r.state.curves)]]
    /\ UNCHANGED state_vars

SynNext == SynCall

SynSpec == SynInit /\ [][SynNext]_vars

-----------------------------------------------------------------------------
(* Vocabulary of the properties *)

SqDist(c, p) == (p.x - c.x) * (p.x - c.x) + (p.y - c.y) * (p.y - c.y)

\* p lies in the hit circle of a handle at c
InHitCircle(c, p) == SqDist(c, p) <= POINT_RADIUS * POINT_RADIUS

HandleOrder == <<"A", "B", "C", "D">>

\* the handles of cs whose hit circle contains p, as <<curve index, rank>>
HitsAt(cs, p) ==
    {h \in (0..(Len(cs) - 1)) \X (1..4) :
        InHitCircle(HandlePoint(cs[h[1] + 1], HandleOrder[h[2]]), p)}

\* the hit handle of the earliest curve, and in it the first of a, b, c, d
FirstHit(cs, p) ==
    LET hits == HitsAt(cs, p)
    IN  CHOOSE h \in hits :
            \A g \in hits : h[1] < g[1] \/ (h[1] = g[1] /\ h[2] <= g[2])

IsDown == event.kind = "mousedown"
IsMove == event.kind = "mousemove"
IsUp   == event.kind = "mouseup"

DownHit  == IsDown /\ HitsAt(pre.curves, event.pos) # {}
DownMiss == IsDown /\ HitsAt(pre.curves, event.pos) = {}

\* n / 3 truncated toward zero
TruncThird(n) == IF n >= 0 THEN n \div 3 ELSE 0 - ((0 - n) \div 3)

Min(a, b) == IF a <= b THEN a ELSE b
Max(a, b) == IF a >= b THEN a ELSE b
Between(v, a, b) == Min(a, b) <= v /\ v <= Max(a, b)

-----------------------------------------------------------------------------
(* Properties *)

\* C1: whenever drag_state is set, its curve_index is a valid index into
\* curves (0 <= curve_index < len), and no listener ever panics on
\* curves[curve_index].
C1_DragIndexValid ==
    /\ ~panicked
    /\ drag_state # None =>
         /\ 0 <= drag_state.val.curve_index
         /\ drag_state.val.curve_index < Len(curves)

\* a pointer-move has indexed curves with the last valid index
C1_Witness ==
    /\ IsMove
    /\ event.pos # pre.mouse
    /\ pre.drag_state # None
    /\ pre.drag_state.val.curve_index = Len(curves) - 1

\* C2: a pointer-down that hits no handle sets the pending anchor to the
\* click and leaves curves unchanged when no anchor is pending; when an
\* anchor A is pending it clears it and appends exactly one curve, at the
\* end, with a = A and d = the click.
C2_TwoClickCreation ==
    DownMiss =>
        IF pre.new_curve = None
        THEN /\ new_curve = Some(event.pos)
             /\ curves = pre.curves
        ELSE /\ new_curve = None
             /\ Len(curves) = Len(pre.curves) + 1
             /\ SubSeq(curves, 1, Len(pre.curves)) = pre.curves
             /\ curves[Len(curves)].a = pre.new_curve.val
             /\ curves[Len(curves)].d = event.pos

\* the second click of a second curve, at another place than its anchor
C2_Witness ==
    /\ DownMiss
    /\ pre.new_curve # None
    /\ Len(pre.curves) = 1
    /\ Len(curves) = 2
    /\ pre.new_curve.val # event.pos

\* C3: for anchor A and click D with non-negative coordinates the new curve
\* has, per component, b = trunc(A + (D-A)/3) and c = trunc(A + 2(D-A)/3),
\* the exact rational truncated toward zero; b and c lie in the range
\* spanned by A and D; A=(0,0), D=(300,300) gives b=(100,100), c=(200,200).
C3_ThirdsTruncated ==
    (call.fn = "new_curve" /\ call.done) =>
        LET A == call.a
            D == call.d
            b == call.ret.b
            c == call.ret.c
        IN  /\ b.x = TruncThird(3 * A.x + (D.x - A.x))
            /\ b.y = TruncThird(3 * A.y + (D.y - A.y))
            /\ c.x = TruncThird(3 * A.x + 2 * (D.x - A.x))
            /\ c.y = TruncThird(3 * A.y + 2 * (D.y - A.y))
            /\ Between(b.x, A.x, D.x) /\ Between(b.y, A.y, D.y)
            /\ Between(c.x, A.x, D.x) /\ Between(c.y, A.y, D.y)
            /\ (A = Point(0, 0) /\ D = Point(300, 300)) =>
                   (b = Point(100, 100) /\ c = Point(200, 200))

\* a curve whose thirds are not whole: the fractions .67 and .33 are dropped
C3_Witness ==
    /\ call.fn = "new_curve"
    /\ call.done
    /\ call.a = Point(10, 10)
    /\ call.d = Point(15, 0)
    /\ call.ret.b = Point(11, 6)
    /\ call.ret.c = Point(13, 3)

\* C4: a pointer-move to P while drag_state = (idx, handle) adds
\* P - (mouse before the event) to the referenced point of curves[idx],
\* and afterwards mouse = P.
C4_DragStep ==
    (IsMove /\ pre.drag_state # None) =>
        LET ds  == pre.drag_state.val
            old == HandlePoint(pre.curves[ds.curve_index + 1], ds.point)
            new == HandlePoint(curves[ds.curve_index + 1], ds.point)
        IN  /\ new.x = old.x + (event.pos.x - pre.mouse.x)
            /\ new.y = old.y + (event.pos.y - pre.mouse.y)
            /\ mouse = event.pos

\* a drag step with a displacement in both components
C4_Witness ==
    /\ IsMove
    /\ pre.drag_state # None
    /\ event.pos.x # pre.mouse.x
    /\ event.pos.y # pre.mouse.y

\* C5: after a pointer-down at P0 that hit a handle and any number of
\* pointer-moves since (no pointer-down or pointer-up in between), the
\* dragged handle is where it was at the pointer-down plus (Pn - P0),
\* Pn being the position of the last event.
C5_DragGesture ==
    drag_origin # None =>
        /\ drag_state # None
        /\ drag_origin.val.handle # None
        /\ LET o   == drag_origin.val
               now == DraggedPoint(curves, drag_state.val)
           IN  /\ now # None
               /\ now.val.x = o.handle.val.x + (event.pos.x - o.pointer.x)
               /\ now.val.y = o.handle.val.y + (event.pos.y - o.pointer.y)

\* a gesture of at least two moves through an intermediate position that is
\* neither the start nor the end
C5_Witness ==
    /\ drag_origin # None
    /\ drag_origin.val.moves >= 2
    /\ IsMove
    /\ pre.mouse # drag_origin.val.pointer
    /\ pre.mouse # event.pos
    /\ event.pos # drag_origin.val.pointer

\* C6: a pointer-down whose position lies in the hit circle of several
\* handles sets drag_state to the handle of the lowest-index curve that has
\* a hit handle, and in that curve to the first hit handle in the order
\* a, b, c, d.
C6_HitOrder ==
    DownHit =>
        LET h == FirstHit(pre.curves, event.pos)
        IN  drag_state = Some([curve_index |-> h[1], point |-> HandleOrder[h[2]]])

\* a click inside hit circles of two curves, and of several handles of the
\* earlier one
C6_Witness ==
    /\ DownHit
    /\ LET hits  == HitsAt(pre.curves, event.pos)
           first == FirstHit(pre.curves, event.pos)
       IN  /\ \E g \in hits : g[1] # first[1]
           /\ \E g \in hits : g[1] = first[1] /\ g[2] # first[2]

\* C7: a pointer-down at P that hits a handle sets drag_state to a hit
\* handle and mouse to P, leaves new_curve and curves unchanged whether or
\* not an anchor was pending, and calls redraw not at all.
C7_DownHitFrame ==
    DownHit =>
        /\ drag_state # None
        /\ \E h \in HitsAt(pre.curves, event.pos) :
              drag_state.val = [curve_index |-> h[1], point |-> HandleOrder[h[2]]]
        /\ mouse = event.pos
        /\ new_curve = pre.new_curve
        /\ curves = pre.curves
        /\ drawn = <<>>

\* a handle is hit while an anchor is pending
C7_Witness ==
    /\ DownHit
    /\ pre.new_curve # None
    /\ new_curve # None

\* C8: pointer-up leaves drag_state absent whatever it was, leaves
\* new_curve, curves and mouse unchanged and calls redraw not at all.
C8_UpFrame ==
    IsUp =>
        /\ drag_state = None
        /\ new_curve = pre.new_curve
        /\ curves = pre.curves
        /\ mouse = pre.mouse
        /\ drawn = <<>>

\* a pointer-up ends a drag while an anchor is pending
C8_Witness ==
    /\ IsUp
    /\ pre.drag_state # None
    /\ pre.new_curve # None
    /\ drag_state = None

\* C9: a pointer-move with no drag and no pending anchor changes no part of
\* the state and calls redraw not at all.
C9_IdleMove ==
    (IsMove /\ pre.drag_state = None /\ pre.new_curve = None) =>
        /\ State = pre
        /\ drawn = <<>>

\* an idle move to another position, over an editor that has a curve
C9_Witness ==
    /\ IsMove
    /\ pre.drag_state = None
    /\ pre.new_curve = None
    /\ event.pos # pre.mouse
    /\ Len(curves) > 0

\* C10: with radius 4, is_point_inside_circle(C, 4, P) is true exactly when
\* (Px-Cx)^2 + (Py-Cy)^2 <= 16; a point at distance exactly 4 is inside.
C10_HitTest ==
    (call.fn = "is_point_inside_circle" /\ call.done) =>
        (call.ret <=> SqDist(call.center, call.point) <= 16)

\* a point on the circle is inside
C10_Witness ==
    /\ call.fn = "is_point_inside_circle"
    /\ call.done
    /\ call.point.x - call.center.x = 4
    /\ call.point.y = call.center.y
    /\ call.ret

-----------------------------------------------------------------------------
(* Properties of the modes and of the redraws *)

Dragging == drag_state # None
Placing  == new_curve # None
WasDragging == pre.drag_state # None
WasPlacing  == pre.new_curve # None

\* C11: the length of curves never decreases; it grows by exactly one, and
\* only on a pointer-down that hits no handle while an anchor is pending;
\* the new curve is the last one, and every curve that existed keeps its
\* index (the only entry that can differ from before is the dragged one).
C11_CurvesOnlyGrow ==
    /\ Len(curves) >= Len(pre.curves)
    /\ Len(curves) <= Len(pre.curves) + 1
    /\ Len(curves) = Len(pre.curves) + 1 => (DownMiss /\ WasPlacing)
    /\ (DownMiss /\ WasPlacing) => Len(curves) = Len(pre.curves) + 1
    /\ \A i \in 1..Len(pre.curves) :
          \/ curves[i] = pre.curves[i]
          \/ IsMove /\ WasDragging /\ pre.drag_state.val.curve_index = i - 1

\* a second curve, unlike the first, is appended and the first one stays
C11_Witness ==
    /\ DownMiss
    /\ WasPlacing
    /\ Len(curves) = 2
    /\ curves[1] = pre.curves[1]
    /\ curves[2] # curves[1]
    /\ curves[2].d = event.pos

\* C12 as stated: a state in which drag_state is set and a later state in
\* which new_curve is set (and the other way round) are separated by a
\* state in which both are absent; no single event leads from one mode
\* into the other.
C12_OnlyViaIdle ==
    /\ ~(WasDragging /\ ~WasPlacing /\ Placing)
    /\ ~(WasPlacing /\ ~WasDragging /\ Dragging)

\* C12, amended: no single event leads from drag_state alone set to
\* new_curve alone set or back.  A pointer-down that hits no handle during
\* a drag sets new_curve and keeps drag_state, and a pointer-down on a
\* handle while an anchor is pending sets drag_state and keeps new_curve:
\* either mode is entered from the other through the state in which both
\* are set, not through Idle.
C12_NoDirectSwitch ==
    /\ ~(WasDragging /\ ~WasPlacing /\ Placing /\ ~Dragging)
    /\ ~(WasPlacing /\ ~WasDragging /\ Dragging /\ ~Placing)
    /\ (WasDragging /\ ~WasPlacing /\ Placing) => (DownMiss /\ Dragging)
    /\ (WasPlacing /\ ~WasDragging /\ Dragging) => (DownHit /\ Placing)

\* a click beside every handle during a drag: both modes at once
C12_Witness ==
    /\ DownMiss
    /\ WasDragging
    /\ ~WasPlacing
    /\ Dragging
    /\ Placing

\* C13: drag_state and new_curve are not mutually exclusive: a pointer-down
\* on a handle while an anchor is pending, and a pointer-down beside every
\* handle during a drag with no anchor pending, each leave both set.
C13_BothCanBeSet ==
    /\ (DownHit /\ WasPlacing) => (Dragging /\ Placing)
    /\ (DownMiss /\ WasDragging /\ ~WasPlacing) => (Dragging /\ Placing)

\* a reachable state with drag_state set and an anchor pending
C13_Witness ==
    /\ Dragging
    /\ Placing
    /\ DownHit
    /\ ~WasDragging

\* C14 as stated: a pointer-move with drag_state set and an anchor pending
\* calls redraw once; no pointer-move calls redraw more than once.
C14_OneRedrawPerMove ==
    IsMove => Len(drawn) <= 1

\* C14, amended: a pointer-move calls redraw once for the drag branch and
\* once for the pending branch: twice when drag_state is set and an anchor
\* is pending, once when exactly one of them holds, never more than twice;
\* the two calls paint the same picture, that of the state the listener
\* leaves.
C14_RedrawPerBranch ==
    IsMove =>
        /\ Len(drawn) = (IF WasDragging THEN 1 ELSE 0) + (IF WasPlacing THEN 1 ELSE 0)
        /\ Len(drawn) <= 2
        /\ \A i \in 1..Len(drawn) :
              /\ drawn[i].curves = curves
              /\ drawn[i] = drawn[1]

\* a move that runs both branches and redraws twice
C14_Witness ==
    /\ IsMove
    /\ WasDragging
    /\ WasPlacing
    /\ Len(drawn) = 2

\* C15: drag_state goes from absent to set only on a pointer-down that hits
\* a handle and from set to absent only on pointer-up; a pointer-move and
\* a pointer-down that hits no handle leave it as it was.
C15_DragStartEnd ==
    /\ (~WasDragging /\ Dragging) => DownHit
    /\ (WasDragging /\ ~Dragging) => IsUp
    /\ IsMove => drag_state = pre.drag_state
    /\ DownMiss => drag_state = pre.drag_state

\* a click beside every handle completes a curve and the drag goes on
C15_Witness ==
    /\ DownMiss
    /\ WasDragging
    /\ WasPlacing
    /\ drag_state = pre.drag_state
    /\ Len(curves) = Len(pre.curves) + 1

\* C16: a pointer-move to P with drag_state set and an anchor pending moves
\* the dragged point by P - (mouse before the event), once; mouse ends
\* equal to P and new_curve is unchanged.
C16_DragOnceWhilePlacing ==
    (IsMove /\ WasDragging /\ WasPlacing) =>
        LET ds  == pre.drag_state.val
            old == HandlePoint(pre.curves[ds.curve_index + 1], ds.point)
            new == HandlePoint(curves[ds.curve_index + 1], ds.point)
            d   == Point(event.pos.x - pre.mouse.x, event.pos.y - pre.mouse.y)
        IN  /\ new = Point(old.x + d.x, old.y + d.y)
            /\ mouse = event.pos
            /\ new_curve = pre.new_curve

\* such a move, with a displacement that applied twice would show
C16_Witness ==
    /\ IsMove
    /\ WasDragging
    /\ WasPlacing
    /\ event.pos # pre.mouse
    /\ new_curve = pre.new_curve

\* C17: every redraw made while an anchor is pending paints the preview
\* line from the anchor to mouse, and mouse is then the position of the
\* event being handled; every redraw made while no anchor is pending (the
\* one after the second click of a curve included) paints no preview line.
C17_PreviewNotStale ==
    \A i \in 1..Len(drawn) :
        drawn[i].preview =
            IF Placing THEN Some(<<new_curve.val, event.pos>>) ELSE None

\* a drag step redraws with an anchor pending, before the pending branch
\* has run
C17_Witness ==
    /\ IsMove
    /\ WasDragging
    /\ Placing
    /\ event.pos # pre.mouse
    /\ Len(drawn) = 2
    /\ drawn[1].preview = Some(<<new_curve.val, event.pos>>)

\* C18: new_curve goes from present to absent only on a pointer-down that
\* hits no handle, and that event appends exactly one curve whose a is the
\* cleared anchor; pointer-move, pointer-up and a pointer-down on a handle
\* neither clear nor change new_curve.  So the length of curves always
\* equals the number of times new_curve has been cleared.
C18_AnchorLifecycle ==
    /\ (WasPlacing /\ new_curve # pre.new_curve) =>
          /\ DownMiss
          /\ new_curve = None
          /\ Len(curves) = Len(pre.curves) + 1
          /\ curves[Len(curves)].a = pre.new_curve.val
    /\ (IsMove \/ IsUp \/ DownHit) => new_curve = pre.new_curve
    /\ Len(curves) = anchor_clears

\* the anchor of a second curve is consumed
C18_Witness ==
    /\ WasPlacing
    /\ ~Placing
    /\ anchor_clears = 2
    /\ curves[2].a = pre.new_curve.val
    /\ curves[2].a # curves[1].a

C20_DragTracksCursor ==
    Dragging =>
        LET at == DraggedPoint(curves, drag_state.val)
        IN  at # None /\ InHitCircle(at.val, mouse)

====
